---- MODULE Spec2Model ----
(***************************************************************************)
(* The shared memory / audit-trail store of memory_store.py: the entry     *)
(* record, the three storage backends (SQLite, Redis, in-process dict) and *)
(* the SharedMemory facade.                                                *)
(*                                                                         *)
(* Four facades are driven in lockstep with the same calls at the same     *)
(* clock readings, one per way of obtaining a backend:                     *)
(*   "sqlite"  SharedMemory("sqlite")   SQLiteBackend(), db_path ":memory:"*)
(*   "file"    SharedMemory(SQLiteBackend(FilePath))   a database file     *)
(*   "redis"   SharedMemory("redis")    RedisBackend()                     *)
(*   "memory"  SharedMemory("memory")   InMemoryBackend()                  *)
(*                                                                         *)
(* Python values: a str that is concatenated, split or compared by order   *)
(* (source, identifiers, keys, ISO timestamps) is a sequence of one-       *)
(* character strings; a str that is only compared for equality (type,      *)
(* thread_id, conversation_id, serialized payloads) is a TLA+ string.      *)
(* Optional[T] is a sequence of length at most one: None is <<>> and a     *)
(* present value x is <<x>>.  A dict is a function; {} is the empty one.   *)
(***************************************************************************)
EXTENDS Integers, Sequences, FiniteSets, TLC

\* ------------------------------------------------------------------ bounds

\* The number of SharedMemory.store calls of a run.
MaxStores == 2

\* The number of store calls of a run that looks at the order of results.
MaxOrderStores == 3

\* The last second the clock reaches (the clock moves in half seconds, from
\* 0.0 to MaxSecond + 0.5).
MaxSecond == 0

\* The number of connections left open at a time, on one facade.
MaxConns == 1

\* ----------------------------------------------------------- Python values

None == <<>>

Some(x) == <<x>>

IsNone(o) == o = None

\* The value held by a present Optional.
Get(o) == o[1]

EmptyDict == << >>

Digit(n) == <<"0", "1", "2", "3", "4", "5", "6", "7", "8", "9">>[n + 1]

\* The decimal digits of a natural number, as str(int) writes them.
RECURSIVE IntDigits(_)
IntDigits(n) == IF n < 10 THEN <<Digit(n)>>
                ELSE IntDigits(n \div 10) \o <<Digit(n % 10)>>

\* n written with exactly w digits, zero padded (the %02d and %06d of
\* datetime.isoformat).
RECURSIVE Padded(_, _)
Padded(n, w) == IF w = 0 THEN <<>>
                ELSE Padded(n \div 10, w - 1) \o <<Digit(n % 10)>>

\* The digits of the fraction us / 10^6 as repr(float) writes them: no
\* trailing zeros, at least one digit.
RECURSIVE StripZeros(_)
StripZeros(ds) == IF Len(ds) > 1 /\ ds[Len(ds)] = "0"
                  THEN StripZeros(SubSeq(ds, 1, Len(ds) - 1))
                  ELSE ds

\* The byte value of the characters that occur in timestamps (memcmp order).
Code == [c \in {"-", ".", "0", "1", "2", "3", "4", "5", "6", "7", "8", "9",
                ":", "T"} |->
            CASE c = "-" -> 45
              [] c = "." -> 46
              [] c = ":" -> 58
              [] c = "T" -> 84
              [] OTHER   -> 48 + (CHOOSE n \in 0..9 : Digit(n) = c)]

\* The first place from i on where a and b differ, and 0 when one is a
\* prefix of the other.
RECURSIVE FirstDifference(_, _, _)
FirstDifference(a, b, i) ==
    IF i > Len(a) \/ i > Len(b) THEN 0
    ELSE IF a[i] # b[i] THEN i
    ELSE FirstDifference(a, b, i + 1)

\* a <= b for two TEXT values under SQLite's default BINARY collation
\* (memcmp, and the shorter first when one is a prefix of the other).
TextLeq(a, b) ==
    LET i == FirstDifference(a, b, 1)
    IN  IF i = 0 THEN Len(a) <= Len(b) ELSE Code[a[i]] < Code[b[i]]

\* The first place from i on where s holds the character sep, and 0 when
\* there is none.
RECURSIVE Find(_, _, _)
Find(s, sep, i) ==
    IF i > Len(s) THEN 0
    ELSE IF s[i] = sep THEN i
    ELSE Find(s, sep, i + 1)

\* str.split(sep) for a one-character separator.
RECURSIVE Split(_, _)
Split(s, sep) ==
    LET i == Find(s, sep, 1)
    IN  IF i = 0 THEN <<s>>
        ELSE <<SubSeq(s, 1, i - 1)>> \o Split(SubSeq(s, i + 1, Len(s)), sep)

\* ---------------------------------------------------------------- datetime

\* A datetime of the first minute of the epoch: whole seconds and
\* microseconds (datetime.second, datetime.microsecond).
DateTime(s, us) == [second |-> s, microsecond |-> us]

DateTimes == {DateTime(s, us) : s \in 0..MaxSecond, us \in {0, 500000}}

\* datetime.__lt__
DtLess(a, b) == \/ a.second < b.second
                \/ a.second = b.second /\ a.microsecond < b.microsecond

\* datetime.isoformat(): the microseconds are written only when not zero.
isoformat(dt) ==
    <<"1", "9", "7", "0", "-", "0", "1", "-", "0", "1", "T",
      "0", "0", ":", "0", "0", ":">>
    \o Padded(dt.second, 2)
    \o (IF dt.microsecond = 0 THEN <<>>
        ELSE <<".">> \o Padded(dt.microsecond, 6))

\* The ISO text of each datetime.
IsoText == [dt \in DateTimes |-> isoformat(dt)]

\* datetime.fromisoformat(): the datetime the text denotes.
fromisoformat(text) == CHOOSE dt \in DateTimes : IsoText[dt] = text

\* f"{dt.timestamp()}": the POSIX seconds as a float, formatted by repr.
TimestampStr(dt) ==
    IntDigits(dt.second) \o <<".">> \o StripZeros(Padded(dt.microsecond, 6))

\* The timestamp text of each datetime.
TimestampText == [dt \in DateTimes |-> TimestampStr(dt)]

\* ------------------------------------------------------------- MemoryEntry

\* The dataclass constructor: the fields as given (extracted_values is not
\* defaulted to a dict: its default is None).
MemoryEntry(source, type, timestamp, thread_id, conversation_id, payload) ==
    [source |-> source, type |-> type, timestamp |-> timestamp,
     thread_id |-> thread_id, conversation_id |-> conversation_id,
     extracted_values |-> payload]

\* entry_id = f"{entry.source}_{entry.timestamp.timestamp()}", the same
\* expression in the three backends' store.
EntryId(entry) == entry.source \o <<"_">> \o TimestampText[entry.timestamp]

\* The items of a dict of str to str, written with the quote q.
RECURSIVE DictItems(_, _)
DictItems(d, q) ==
    IF DOMAIN d = {} THEN ""
    ELSE LET k    == CHOOSE k \in DOMAIN d : TRUE
             rest == [x \in DOMAIN d \ {k} |-> d[x]]
         IN  q \o k \o q \o ": " \o q \o d[k] \o q
             \o (IF DOMAIN rest = {} THEN "" ELSE ", " \o DictItems(rest, q))

\* The dicts that the JSON texts of this model denote.
JsonDicts == {EmptyDict, [k |-> "v"]}

\* json.dumps of a dict.
json_dumps(d) == "{" \o DictItems(d, "\"") \o "}"

\* The JSON text of each dict.
JsonText == [d \in JsonDicts |-> json_dumps(d)]

\* json.loads: the dict the text denotes.
json_loads(text) == CHOOSE d \in JsonDicts : JsonText[d] = text

\* str(value) of an Optional[str] field and of the Optional[dict] payload, as
\* a client that encodes any value with str() writes them.
StrOfOptStr(o) == IF IsNone(o) THEN "None" ELSE Get(o)

StrOfOptDict(o) == IF IsNone(o) THEN "None"
                   ELSE "{" \o DictItems(Get(o), "'") \o "}"

\* MemoryEntry.to_dict: asdict with the timestamp in ISO format.
to_dict(entry) == [entry EXCEPT !.timestamp = IsoText[entry.timestamp]]

\* ---------------------------------------------------------------- outcomes

\* What a call gives its caller: a value, or the exception it raised.
Ok(v) == [raised |-> "", value |-> v]

Raise(e) == [raised |-> e, value |-> None]

\* ------------------------------------------------------- search criteria

\* kwargs.get(k) is not None: the keyword was given, with any value.
GivenNotNone(kw, k) == k \in DOMAIN kw

\* kwargs.get(k) is truthy: the keyword was given and its value is neither
\* None nor empty (a datetime is always truthy).
Given(kw, k) == /\ k \in DOMAIN kw
                /\ CASE k = "source" -> kw[k] # <<>>
                     [] k \in {"start_time", "end_time"} -> TRUE
                     [] OTHER -> kw[k] # ""

\* _matches_criteria of RedisBackend (entry is what retrieve returned: an
\* Optional; reading a field of None raises AttributeError).
RedisMatchesCriteria(entry, criteria) ==
    LET e == Get(entry)
        reads == \E k \in {"source", "type", "thread_id", "conversation_id",
                           "start_time", "end_time"} : Given(criteria, k)
    IN  IF IsNone(entry) /\ reads THEN Raise("AttributeError")
        ELSE IF Given(criteria, "source") /\ e.source # criteria.source
             THEN Ok(FALSE)
        ELSE IF Given(criteria, "type") /\ e.type # criteria.type
             THEN Ok(FALSE)
        ELSE IF Given(criteria, "thread_id")
                /\ e.thread_id # Some(criteria.thread_id)
             THEN Ok(FALSE)
        ELSE IF Given(criteria, "conversation_id")
                /\ e.conversation_id # Some(criteria.conversation_id)
             THEN Ok(FALSE)
        ELSE IF Given(criteria, "start_time")
                /\ DtLess(e.timestamp, criteria.start_time)
             THEN Ok(FALSE)
        ELSE IF Given(criteria, "end_time")
                /\ DtLess(criteria.end_time, e.timestamp)
             THEN Ok(FALSE)
        ELSE Ok(TRUE)

\* _matches_criteria of InMemoryBackend with the end of the time window
\* left out (>= for >).
MemoryMatchesCriteriaOpenEnd(entry, criteria) ==
    IF Given(criteria, "source") /\ entry.source # criteria.source
    THEN FALSE
    ELSE IF Given(criteria, "type") /\ entry.type # criteria.type
    THEN FALSE
    ELSE IF Given(criteria, "thread_id")
            /\ entry.thread_id # Some(criteria.thread_id)
    THEN FALSE
    ELSE IF Given(criteria, "conversation_id")
            /\ entry.conversation_id # Some(criteria.conversation_id)
    THEN FALSE
    ELSE IF Given(criteria, "start_time")
            /\ DtLess(entry.timestamp, criteria.start_time)
    THEN FALSE
    ELSE IF Given(criteria, "end_time")
            /\ ~DtLess(entry.timestamp, criteria.end_time)
    THEN FALSE
    ELSE TRUE

\* _matches_criteria of InMemoryBackend (entry is a stored MemoryEntry).
MemoryMatchesCriteria(entry, criteria) ==
    IF Given(criteria, "source") /\ entry.source # criteria.source
    THEN FALSE
    ELSE IF Given(criteria, "type") /\ entry.type # criteria.type
    THEN FALSE
    ELSE IF Given(criteria, "thread_id")
            /\ entry.thread_id # Some(criteria.thread_id)
    THEN FALSE
    ELSE IF Given(criteria, "conversation_id")
            /\ entry.conversation_id # Some(criteria.conversation_id)
    THEN FALSE
    ELSE IF Given(criteria, "start_time")
            /\ DtLess(entry.timestamp, criteria.start_time)
    THEN FALSE
    ELSE IF Given(criteria, "end_time")
            /\ DtLess(criteria.end_time, entry.timestamp)
    THEN FALSE
    ELSE TRUE

\* ----------------------------------------------------------- SQLiteBackend

\* The path of the database file of the "file" facade.
FilePath == "memory.db"

\* db_path of each SQLite facade: SQLiteBackend() takes the default.
DbPath(v) == IF v = "sqlite" THEN ":memory:" ELSE FilePath

\* A database with no table.
EmptyDatabase == [has_table |-> FALSE, rows |-> <<>>]

\* sqlite3.connect(db_path): ":memory:" opens a new, empty, private database
\* on every call; any other path opens the file's database.
Connect(db_path, files) ==
    IF db_path = ":memory:" THEN EmptyDatabase ELSE files[db_path]

\* Leaving the with block of a connection to db_path with database db:
\* the file holds what was committed; a ":memory:" database is gone with
\* its connection.
Commit(db_path, files, db) ==
    IF db_path = ":memory:" THEN files ELSE [files EXCEPT ![db_path] = db]

\* _init_db: create the table unless it exists.
InitDb(db) == IF db.has_table THEN db ELSE [db EXCEPT !.has_table = TRUE]

\* The row that store inserts.
Row(entry_id, entry) ==
    [id |-> entry_id,
     source |-> entry.source,
     type |-> entry.type,
     timestamp |-> IsoText[entry.timestamp],
     thread_id |-> entry.thread_id,
     conversation_id |-> entry.conversation_id,
     extracted_values |->
         JsonText[IF IsNone(entry.extracted_values)
                       \/ Get(entry.extracted_values) = EmptyDict
                    THEN EmptyDict
                    ELSE Get(entry.extracted_values)]]

\* The MemoryEntry that retrieve and search build from a row.
RowEntry(row) ==
    MemoryEntry(row.source, row.type, fromisoformat(row.timestamp),
                row.thread_id, row.conversation_id,
                Some(json_loads(row.extracted_values)))

\* SQLiteBackend.store on the connection's database: the INSERT fails when
\* the table is missing and when the primary key is taken; the with block
\* then rolls back.
SQLiteStore(db, entry) ==
    LET entry_id == EntryId(entry)
    IN  IF ~db.has_table
        THEN [out |-> Raise("OperationalError"), db |-> db]
        ELSE IF \E i \in 1..Len(db.rows) : db.rows[i].id = entry_id
        THEN [out |-> Raise("IntegrityError"), db |-> db]
        ELSE [out |-> Ok(entry_id),
              db  |-> [db EXCEPT !.rows = Append(@, Row(entry_id, entry))]]

\* SQLiteBackend.retrieve.
SQLiteRetrieve(db, entry_id) ==
    IF ~db.has_table THEN Raise("OperationalError")
    ELSE IF \E i \in 1..Len(db.rows) : db.rows[i].id = entry_id
    THEN LET i == CHOOSE i \in 1..Len(db.rows) : db.rows[i].id = entry_id
         IN  Ok(Some(RowEntry(db.rows[i])))
    ELSE Ok(None)

\* The WHERE clause that search composes, on one row: one condition per
\* truthy keyword, joined by AND; a NULL column equals nothing.
SQLiteWhere(row, kw) ==
    /\ Given(kw, "source") => row.source = kw.source
    /\ Given(kw, "type") => row.type = kw.type
    /\ Given(kw, "thread_id") => row.thread_id = Some(kw.thread_id)
    /\ Given(kw, "conversation_id")
           => row.conversation_id = Some(kw.conversation_id)
    /\ Given(kw, "start_time")
           => TextLeq(IsoText[kw.start_time], row.timestamp)
    /\ Given(kw, "end_time")
           => TextLeq(row.timestamp, IsoText[kw.end_time])

\* The rows the query selects, in table order.
RECURSIVE SelectRows(_, _)
SelectRows(rows, kw) ==
    IF rows = <<>> THEN <<>>
    ELSE (IF SQLiteWhere(Head(rows), kw)
          THEN <<Some(RowEntry(Head(rows)))>> ELSE <<>>)
         \o SelectRows(Tail(rows), kw)

\* SQLiteBackend.search.
SQLiteSearch(db, kw) ==
    IF ~db.has_table THEN Raise("OperationalError")
    ELSE Ok(SelectRows(db.rows, kw))

\* ------------------------------------------------------------ RedisBackend

\* f"memory:{entry_id}"
RedisKey(entry_id) == <<"m", "e", "m", "o", "r", "y", ":">> \o entry_id

\* The field values of the hash as a client that encodes every value with
\* str() sends them.
RedisHash(data) ==
    [source |-> data.source,
     type |-> data.type,
     timestamp |-> data.timestamp,
     thread_id |-> StrOfOptStr(data.thread_id),
     conversation_id |-> StrOfOptStr(data.conversation_id),
     extracted_values |-> StrOfOptDict(data.extracted_values)]

\* A client that checks its input refuses a value that is None or a dict
\* (DataError); extracted_values is always one of the two.
HmsetRefuses(data) ==
    \/ IsNone(data.thread_id)
    \/ IsNone(data.conversation_id)
    \/ IsNone(data.extracted_values)
    \/ ~IsNone(data.extracted_values)

\* RedisBackend.store with a client of major version major: HMSET sets the
\* fields of the hash at the key, creating it when absent.
RedisStore(db, major, entry) ==
    LET entry_id == EntryId(entry)
        data     == to_dict(entry)
        key      == RedisKey(entry_id)
    IN  IF major >= 3 /\ HmsetRefuses(data)
        THEN [out |-> Raise("DataError"), db |-> db]
        ELSE [out |-> Ok(entry_id),
              db  |-> (key :> RedisHash(data)) @@ db]

\* HGETALL: the hash at the key, empty when there is none.
Hgetall(db, key) == IF key \in DOMAIN db THEN db[key] ELSE EmptyDict

\* MemoryEntry.from_dict: with keys that are not str (the bytes keys of a
\* reply that is not decoded) cls(**data) raises TypeError.
from_dict(data, str_keys) ==
    IF ~str_keys THEN Raise("TypeError")
    ELSE Ok(Some([data EXCEPT !.timestamp = fromisoformat(@)]))

\* RedisBackend.retrieve: the client is built without decode_responses.
RedisRetrieve(db, entry_id) ==
    LET data == Hgetall(db, RedisKey(entry_id))
    IN  IF data = EmptyDict THEN Ok(None) ELSE from_dict(data, FALSE)

\* RedisBackend.search over the keys in the order KEYS gave them: the
\* identifier is the second part of the key split at ":".
RECURSIVE RedisScan(_, _, _, _)
RedisScan(db, keys, kw, entries) ==
    IF keys = <<>> THEN Ok(entries)
    ELSE LET entry == RedisRetrieve(db, Split(Head(keys), ":")[2])
             match == RedisMatchesCriteria(entry.value, kw)
         IN  IF entry.raised # "" THEN entry
             ELSE IF match.raised # "" THEN match
             ELSE RedisScan(db, Tail(keys), kw,
                            IF match.value THEN Append(entries, entry.value)
                            ELSE entries)

RedisSearch(db, keys, kw) == RedisScan(db, keys, kw, <<>>)

\* The orders in which KEYS may list the keys of db.
KeyOrders(db) ==
    {order \in [1..Cardinality(DOMAIN db) -> DOMAIN db] :
         \A i, j \in DOMAIN order : i # j => order[i] # order[j]}

\* --------------------------------------------------------- InMemoryBackend

\* self.entries is a dict from identifier to MemoryEntry object: a sequence
\* of [id, ref] in insertion order, ref the object's place in the heap.
\* self.entries[entry_id] = entry: a key already present keeps its place.
MemoryStore(dict, entry_id, ref) ==
    IF \E i \in 1..Len(dict) : dict[i].id = entry_id
    THEN LET i == CHOOSE i \in 1..Len(dict) : dict[i].id = entry_id
         IN  [dict EXCEPT ![i].ref = ref]
    ELSE Append(dict, [id |-> entry_id, ref |-> ref])

\* self.entries.get(entry_id): the object held, or None.
MemoryRetrieve(dict, entry_id) ==
    IF \E i \in 1..Len(dict) : dict[i].id = entry_id
    THEN LET i == CHOOSE i \in 1..Len(dict) : dict[i].id = entry_id
         IN  Some(dict[i].ref)
    ELSE None

\* InMemoryBackend.search: the objects of self.entries.values() that match.
RECURSIVE MemorySearch(_, _, _)
MemorySearch(dict, objects, kw) ==
    IF dict = <<>> THEN <<>>
    ELSE (IF MemoryMatchesCriteria(objects[Head(dict).ref], kw)
          THEN <<Head(dict).ref>> ELSE <<>>)
         \o MemorySearch(Tail(dict), objects, kw)

\* ----------------------------------------------------- SharedMemory.__init__

LowerCase == <<"a", "b", "c", "d", "e", "f", "g", "h", "i", "j", "k", "l", "m",
               "n", "o", "p", "q", "r", "s", "t", "u", "v", "w", "x", "y", "z">>

UpperCase == <<"A", "B", "C", "D", "E", "F", "G", "H", "I", "J", "K", "L", "M",
               "N", "O", "P", "Q", "R", "S", "T", "U", "V", "W", "X", "Y", "Z">>

\* str.lower() of one character: a capital letter gives its small letter,
\* any other character itself.
LowerChar(c) ==
    IF \E i \in 1..26 : UpperCase[i] = c
    THEN LowerCase[CHOOSE i \in 1..26 : UpperCase[i] = c]
    ELSE c

\* str.lower()
Lower(s) == [i \in 1..Len(s) |-> LowerChar(s[i])]

\* The backend objects: SQLiteBackend(db_path), RedisBackend(),
\* InMemoryBackend(), and a backend class of the caller's own.
SQLiteBackend(db_path) == [class |-> "SQLiteBackend", db_path |-> db_path]

RedisBackend == [class |-> "RedisBackend"]

InMemoryBackend == [class |-> "InMemoryBackend"]

CustomBackend == [class |-> "CustomBackend"]

\* An argument of SharedMemory(backend): a str, or a backend object.
StrArg(s) == [is_str |-> TRUE, name |-> s]

ObjArg(b) == [is_str |-> FALSE, object |-> b]

\* SharedMemory.__init__ comparing the name as given, without lower().
SharedMemoryInitCaseSensitive(backend) ==
    IF backend.is_str
    THEN LET name == backend.name
         IN  IF name = <<"s", "q", "l", "i", "t", "e">>
             THEN Ok(SQLiteBackend(":memory:"))
             ELSE IF name = <<"r", "e", "d", "i", "s">>
             THEN Ok(RedisBackend)
             ELSE IF name = <<"m", "e", "m", "o", "r", "y">>
             THEN Ok(InMemoryBackend)
             ELSE Raise("ValueError")
    ELSE Ok(backend.object)

\* SharedMemory.__init__: self.backend after construction, or ValueError.
SharedMemoryInit(backend) ==
    IF backend.is_str
    THEN LET name == Lower(backend.name)
         IN  IF name = <<"s", "q", "l", "i", "t", "e">>
             THEN Ok(SQLiteBackend(":memory:"))
             ELSE IF name = <<"r", "e", "d", "i", "s">>
             THEN Ok(RedisBackend)
             ELSE IF name = <<"m", "e", "m", "o", "r", "y">>
             THEN Ok(InMemoryBackend)
             ELSE Raise("ValueError")
    ELSE Ok(backend.object)

\* ------------------------------------------------------------------- state

VARIABLES
    now,          \* the clock that datetime.now() reads
    redis_major,  \* the major version of the installed Redis client
    files,        \* the SQLite database of each database file
    redis,        \* the Redis server's hashes, by key
    entries,      \* InMemoryBackend.entries
    heap,         \* the MemoryEntry objects SharedMemory.store created
    log,          \* the store calls made: the entry built, what each returned
    ret,          \* the last call: its argument and what each facade returned
    backend,      \* SharedMemory.backend of each facade
    facade,       \* the last SharedMemory(...) call: its argument and outcome
    conns,        \* the connections completed SQLite calls left open
    threads       \* the threads that share one in-process facade

vars == <<now, redis_major, files, redis, entries, heap, log, ret, backend,
          facade, conns, threads>>

Variants == {"sqlite", "file", "redis", "memory"}

\* The facades whose backend is a SQLiteBackend.
SqlVariants == {"sqlite", "file"}

\* The argument each facade is constructed with.
VariantArg ==
    [sqlite |-> StrArg(<<"s", "q", "l", "i", "t", "e">>),
     file   |-> ObjArg(SQLiteBackend(FilePath)),
     redis  |-> StrArg(<<"r", "e", "d", "i", "s">>),
     memory |-> StrArg(<<"m", "e", "m", "o", "r", "y">>)]

\* The threads of the multi-threaded host.
Threads == {"T1", "T2"}

\* A thread that is in no call; out is what its last call gave.
Idle(out) ==
    [pc |-> "idle", kw |-> << >>, began |-> << >>, used |-> 0, pos |-> 0,
     found |-> << >>, out |-> out]

\* A thread in InMemoryBackend.search(**kw) that has just made the iterator
\* of self.entries.values(): the iterator notes the size of the dict (used)
\* and starts at its first slot (pos).  began is the dict at that moment.
Iterating(kw, dict) ==
    [pc |-> "search", kw |-> kw, began |-> dict, used |-> Len(dict), pos |-> 1,
     found |-> << >>, out |-> Ok(None)]

\* One turn of the list comprehension of InMemoryBackend.search in thread
\* state th: the iterator raises RuntimeError when the dict has changed
\* size, ends the search when it is past the last slot, and else gives the
\* object of its slot, which is kept when _matches_criteria accepts it.
IterStep(th, dict, objects) ==
    IF th.used # Len(dict) THEN Idle(Raise("RuntimeError"))
    ELSE IF th.pos > Len(dict)
    THEN Idle(Ok([i \in 1..Len(th.found) |-> Some(objects[th.found[i]])]))
    ELSE LET ref == dict[th.pos].ref
         IN  [th EXCEPT !.pos = @ + 1,
                        !.found = IF MemoryMatchesCriteria(objects[ref], th.kw)
                                  THEN Append(@, ref) ELSE @]

\* ------------------------------------------------------------- connections

\* What a call that opened a connection leaves open when it is over (1 or
\* 0).  No call closes its connection: the with block of a sqlite3
\* connection commits or rolls back.  The connection is closed when its
\* object is reclaimed: closes tells whether the runtime reclaims it as the
\* call returns; after a raise the traceback keeps the frame and with it the
\* connection.
LeftOpen(out, closes) == IF out.raised # "" \/ ~closes THEN 1 ELSE 0

\* conns after a call with outcomes out on the SQLite facades.
AfterCall(open, out, closes) ==
    [v \in SqlVariants |-> open[v] + LeftOpen(out[v], closes)]

\* Another connection can be opened on every SQLite facade.
CanConnect(open) == \A v \in SqlVariants : open[v] < MaxConns

\* ------------------------------------------------------------------ inputs

\* The store calls made: (source, type, extracted_values, thread_id,
\* conversation_id), the last three optional.
StoreArgs ==
    {<<<<"a">>, "t1", None, None, None>>,
     <<<<"a">>, "t2", Some([k |-> "v"]), Some("th1"), None>>,
     <<<<"a", ":", "b">>, "t2", Some(EmptyDict), None, Some("c1")>>,
     <<<<"a", ":", "b">>, "t1", Some([k |-> "v"]), Some("th1"), Some("c1")>>,
     <<<<>>, "t1", None, None, None>>,
     <<<<"a">>, "", Some([k |-> "v"]), None, None>>}

Sources == {a[1] : a \in StoreArgs}

Types == {a[2] : a \in StoreArgs}

\* An identifier that no store call returns.
NonexistentId == <<"n", "o", "n", "e", "x", "i", "s", "t", "e", "n", "t">>

\* The keyword arguments of a search call: each argument absent (None) or
\* present.
Kwargs(source, type, thread_id, conversation_id, start_time, end_time) ==
    LET args == [source |-> source, type |-> type, thread_id |-> thread_id,
                 conversation_id |-> conversation_id,
                 start_time |-> start_time, end_time |-> end_time]
    IN  [k \in {k \in DOMAIN args : ~IsNone(args[k])} |-> Get(args[k])]

\* The search calls made: no criterion, each criterion alone, source with
\* type, and a time window.
SearchKwargs ==
    {Kwargs(None, None, None, None, None, None)}
    \cup {Kwargs(Some(x), None, None, None, None, None) : x \in Sources}
    \cup {Kwargs(None, Some(x), None, None, None, None) : x \in Types}
    \cup {Kwargs(Some(<<"a">>), Some("t2"), None, None, None, None),
          Kwargs(None, None, Some("th1"), None, None, None),
          Kwargs(None, None, None, Some("c1"), None, None)}
    \cup {Kwargs(None, None, None, None, Some(t), None) : t \in DateTimes}
    \cup {Kwargs(None, None, None, None, None, Some(t)) : t \in DateTimes}
    \cup {Kwargs(None, None, None, None, Some(t), Some(t)) : t \in DateTimes}

\* --------------------------------------------------------------- the facade

\* SharedMemory.store of each facade: the backend's store of the entry.
StoreOut(entry) ==
    [sqlite |-> SQLiteStore(Connect(DbPath("sqlite"), files), entry),
     file   |-> SQLiteStore(Connect(DbPath("file"), files), entry),
     redis  |-> RedisStore(redis, redis_major, entry),
     memory |-> [out |-> Ok(EntryId(entry)),
                 db  |-> MemoryStore(entries, EntryId(entry), Len(heap) + 1)]]

\* SharedMemory.retrieve of each facade.  The in-process backend returns the
\* stored object itself.
RetrieveOut(entry_id) ==
    [sqlite |-> SQLiteRetrieve(Connect(DbPath("sqlite"), files), entry_id),
     file   |-> SQLiteRetrieve(Connect(DbPath("file"), files), entry_id),
     redis  |-> RedisRetrieve(redis, entry_id),
     memory |-> LET r == MemoryRetrieve(entries, entry_id)
                IN  Ok(IF IsNone(r) THEN None ELSE Some(heap[Get(r)]))]

\* SharedMemory.search of each facade, KEYS listing the keys in order keys.
SearchOut(kw, keys) ==
    [sqlite |-> SQLiteSearch(Connect(DbPath("sqlite"), files), kw),
     file   |-> SQLiteSearch(Connect(DbPath("file"), files), kw),
     redis  |-> RedisSearch(redis, keys, kw),
     memory |-> LET refs == MemorySearch(entries, heap, kw)
                IN  Ok([i \in 1..Len(refs) |-> Some(heap[refs[i]])])]

\* The spellings of a lower-case name in every letter case.
CaseVariants(name) ==
    {[i \in 1..Len(name) |->
          IF i \in caps
          THEN UpperCase[CHOOSE j \in 1..26 : LowerCase[j] = name[i]]
          ELSE name[i]] : caps \in SUBSET (1..Len(name))}

\* The names that select a backend.
BackendNames ==
    [SQLiteBackend   |-> <<"s", "q", "l", "i", "t", "e">>,
     RedisBackend    |-> <<"r", "e", "d", "i", "s">>,
     InMemoryBackend |-> <<"m", "e", "m", "o", "r", "y">>]

\* Names that select none.
OtherNames ==
    {<<>>, <<"s", "q", "l">>, <<"s", "q", "l", "i", "t", "e", "3">>,
     <<" ", "r", "e", "d", "i", "s">>, <<"m", "e", "m", "o", "r", "y", " ">>,
     <<"m", "o", "n", "g", "o">>, <<"S", "Q", "L", "I", "T", "E", "_">>,
     <<"i", "n", "m", "e", "m", "o", "r", "y">>}

\* The arguments SharedMemory is constructed with.
BackendArgs ==
    {StrArg(s) : s \in UNION {CaseVariants(BackendNames[c]) :
                                  c \in DOMAIN BackendNames}}
    \cup {StrArg(s) : s \in OtherNames}
    \cup {ObjArg(b) : b \in {SQLiteBackend(":memory:"), SQLiteBackend(FilePath),
                             RedisBackend, InMemoryBackend, CustomBackend}}

\* The entries that the matchers are given: every stored form at every clock
\* reading.
MatchEntries ==
    {MemoryEntry(a[1], a[2], t, a[4], a[5], a[3]) :
         a \in StoreArgs, t \in DateTimes}

Optional(S) == {None} \cup {Some(x) : x \in S}

\* The criteria sets that the matchers are given: every combination of an
\* absent, empty, matching or other value per criterion.
MatchKwargs ==
    {Kwargs(so, ty, th, co, st, en) :
         so \in Optional(Sources), ty \in Optional(Types),
         th \in Optional({"th1", ""}), co \in Optional({"c1", ""}),
         st \in Optional(DateTimes), en \in Optional(DateTimes)}

\* The search calls with criteria given as the empty string: each of
\* source, type, thread_id and conversation_id alone, all four, and an empty
\* one next to one that filters.
EmptyKwargs ==
    {Kwargs(Some(<<>>), None, None, None, None, None),
     Kwargs(None, Some(""), None, None, None, None),
     Kwargs(None, None, Some(""), None, None, None),
     Kwargs(None, None, None, Some(""), None, None),
     Kwargs(Some(<<>>), Some(""), Some(""), Some(""), None, None),
     Kwargs(Some(<<"a">>), Some(""), None, None, None, None),
     Kwargs(Some(<<>>), Some("t1"), None, None, None, None),
     Kwargs(None, Some("t1"), Some(""), None, None, None)}

\* ----------------------------------------------------------------- actions

Init ==
    /\ now = DateTime(0, 0)
    /\ redis_major \in {2, 3}
    /\ files = [p \in {FilePath} |-> InitDb(EmptyDatabase)]
    /\ redis = << >>
    /\ entries = << >>
    /\ heap = << >>
    /\ log = << >>
    /\ ret = [op |-> "init", arg |-> None, out |-> [v \in Variants |-> Ok(None)],
              refs |-> {}]
    /\ backend = [v \in Variants |-> SharedMemoryInit(VariantArg[v]).value]
    /\ facade = [arg |-> None, out |-> Ok(None)]
    /\ \E closes \in BOOLEAN :
           conns = AfterCall([v \in SqlVariants |-> 0],
                             [v \in SqlVariants |-> Ok(None)], closes)
    /\ threads = [t \in Threads |-> Idle(Ok(None))]

\* The clock moves on by half a second.
Tick ==
    /\ IF now.microsecond = 0
       THEN now' = DateTime(now.second, 500000)
       ELSE /\ now.second < MaxSecond
            /\ now' = DateTime(now.second + 1, 0)
    /\ UNCHANGED <<redis_major, files, redis, entries, heap, log, ret, backend,
                   facade, conns, threads>>

\* SharedMemory.store(source, type, extracted_values, thread_id,
\* conversation_id) on every facade.
Store(source, type, extracted_values, thread_id, conversation_id) ==
    LET entry == MemoryEntry(source, type, now, thread_id, conversation_id,
                             extracted_values)
        res   == StoreOut(entry)
        out   == [v \in Variants |-> res[v].out]
    IN  /\ CanConnect(conns)
        /\ \E closes \in BOOLEAN : conns' = AfterCall(conns, out, closes)
        /\ files' = Commit(DbPath("file"),
                           Commit(DbPath("sqlite"), files, res.sqlite.db),
                           res.file.db)
        /\ redis' = res.redis.db
        /\ heap' = Append(heap, entry)
        /\ entries' = res.memory.db
        /\ log' = Append(log, [entry |-> entry, out |-> out])
        /\ ret' = [op |-> "store", arg |-> entry, out |-> out, refs |-> {}]
        /\ UNCHANGED <<now, redis_major, backend, facade, threads>>

\* SharedMemory.retrieve(entry_id) with an in-process backend that takes the
\* entry out of the dict (pop for get).
RetrieveAndForget(entry_id) ==
    LET r   == MemoryRetrieve(entries, entry_id)
        out == RetrieveOut(entry_id)
    IN  /\ CanConnect(conns)
        /\ \E closes \in BOOLEAN : conns' = AfterCall(conns, out, closes)
        /\ ret' = [op |-> "retrieve", arg |-> entry_id, out |-> out,
                   refs |-> IF IsNone(r) THEN {} ELSE {Get(r)}]
        /\ entries' = SelectSeq(entries, LAMBDA slot : slot.id # entry_id)
        /\ UNCHANGED <<now, redis_major, files, redis, heap, log, backend,
                       facade, threads>>

\* SharedMemory.retrieve(entry_id) on every facade.
Retrieve(entry_id) ==
    LET r   == MemoryRetrieve(entries, entry_id)
        out == RetrieveOut(entry_id)
    IN  /\ CanConnect(conns)
        /\ \E closes \in BOOLEAN : conns' = AfterCall(conns, out, closes)
        /\ ret' = [op |-> "retrieve", arg |-> entry_id, out |-> out,
                   refs |-> IF IsNone(r) THEN {} ELSE {Get(r)}]
        /\ UNCHANGED <<now, redis_major, files, redis, entries, heap, log,
                       backend, facade, threads>>

\* SharedMemory.search(**kw) on every facade.
Search(kw) ==
    \E keys \in KeyOrders(redis) :
        LET refs == MemorySearch(entries, heap, kw)
            out  == SearchOut(kw, keys)
        IN  /\ CanConnect(conns)
            /\ \E closes \in BOOLEAN : conns' = AfterCall(conns, out, closes)
            /\ ret' = [op |-> "search", arg |-> kw, out |-> out,
                       refs |-> {refs[i] : i \in 1..Len(refs)}]
            /\ UNCHANGED <<now, redis_major, files, redis, entries, heap,
                           log, backend, facade, threads>>

\* The caller assigns the type field of an entry object that the in-process
\* facade's last retrieve or search returned.
CallerSetsType(ref, type) ==
    /\ ref \in ret.refs
    /\ heap[ref].type # type
    /\ heap' = [heap EXCEPT ![ref].type = type]
    /\ UNCHANGED <<now, redis_major, files, redis, entries, log, ret, backend,
                   facade, conns, threads>>

\* The connections left open are reclaimed (the garbage collector runs, the
\* caller drops the exception it caught): their objects' finalizers close
\* them.
Collect ==
    /\ \E v \in SqlVariants : conns[v] > 0
    /\ conns' = [v \in SqlVariants |-> 0]
    /\ UNCHANGED <<now, redis_major, files, redis, entries, heap, log, ret,
                   backend, facade, threads>>

\* SharedMemory(backend): the facade exists when __init__ returned.
Construct(arg) ==
    /\ facade' = [arg |-> Some(arg), out |-> SharedMemoryInit(arg)]
    /\ UNCHANGED <<now, redis_major, files, redis, entries, heap, log, ret,
                   backend, conns, threads>>

DoConstruct == \E arg \in BackendArgs : Construct(arg)

\* Thread t calls store on the shared in-process facade: the entry is made
\* and self.entries[entry_id] = entry is one step.
ThreadStore(t, source, type, extracted_values, thread_id, conversation_id) ==
    LET entry    == MemoryEntry(source, type, now, thread_id, conversation_id,
                                extracted_values)
        entry_id == EntryId(entry)
    IN  /\ threads[t].pc = "idle"
        /\ Len(heap) < MaxStores
        /\ heap' = Append(heap, entry)
        /\ entries' = MemoryStore(entries, entry_id, Len(heap) + 1)
        /\ threads' = [threads EXCEPT ![t] = Idle(Ok(entry_id))]
        /\ UNCHANGED <<now, redis_major, files, redis, log, ret, backend,
                       facade, conns>>

\* Thread t calls retrieve: self.entries.get(entry_id) is one step.
ThreadRetrieve(t, entry_id) ==
    LET r == MemoryRetrieve(entries, entry_id)
    IN  /\ threads[t].pc = "idle"
        /\ threads' = [threads EXCEPT ![t] =
               Idle(Ok(IF IsNone(r) THEN None ELSE Some(heap[Get(r)])))]
        /\ UNCHANGED <<now, redis_major, files, redis, entries, heap, log, ret,
                       backend, facade, conns>>

\* Thread t calls search(**kw): it makes the iterator and takes the first
\* turn of the comprehension; the call of _matches_criteria is where another
\* thread can run.
ThreadSearchBegin(t, kw) ==
    /\ threads[t].pc = "idle"
    /\ threads' = [threads EXCEPT ![t] =
           IterStep(Iterating(kw, entries), entries, heap)]
    /\ UNCHANGED <<now, redis_major, files, redis, entries, heap, log, ret,
                   backend, facade, conns>>

\* Thread t takes the next turn of its comprehension.
ThreadSearchStep(t) ==
    /\ threads[t].pc = "search"
    /\ threads' = [threads EXCEPT ![t] = IterStep(threads[t], entries, heap)]
    /\ UNCHANGED <<now, redis_major, files, redis, entries, heap, log, ret,
                   backend, facade, conns>>

\* The search calls of the threads: no criterion, and a type.
ThreadSearchKwargs ==
    {Kwargs(None, None, None, None, None, None),
     Kwargs(None, Some("t1"), None, None, None, None)}

DoThreadStore ==
    \E t \in Threads, a \in StoreArgs :
        ThreadStore(t, a[1], a[2], a[3], a[4], a[5])

DoThreadRetrieve ==
    \E t \in Threads :
        \E entry_id \in {entries[i].id : i \in 1..Len(entries)}
                        \cup {NonexistentId} :
            ThreadRetrieve(t, entry_id)

DoThreadSearchBegin ==
    \E t \in Threads, kw \in ThreadSearchKwargs : ThreadSearchBegin(t, kw)

DoThreadSearchStep == \E t \in Threads : ThreadSearchStep(t)

\* The three matchers on one entry and one criteria set: the WHERE clause
\* of SQLiteBackend.search on the entry's row, and the two _matches_criteria.
Match(entry, kw) ==
    LET selected == Ok(SQLiteWhere(Row(EntryId(entry), entry), kw))
    IN  /\ ret' = [op |-> "match", arg |-> [entry |-> entry, kw |-> kw],
                   out |-> [sqlite |-> selected,
                            file   |-> selected,
                            redis  |-> RedisMatchesCriteria(Some(entry), kw),
                            memory |-> Ok(MemoryMatchesCriteria(entry, kw))],
                   refs |-> {}]
        /\ UNCHANGED <<now, redis_major, files, redis, entries, heap, log,
                       backend, facade, conns, threads>>

\* One entry and one criteria set per run.
DoMatch ==
    /\ ret.op = "init"
    /\ \E entry \in MatchEntries, kw \in MatchKwargs : Match(entry, kw)

DoStore ==
    /\ Len(log) < MaxStores
    /\ \E a \in StoreArgs : Store(a[1], a[2], a[3], a[4], a[5])

\* The store calls of a run that looks at the order of results: two of one
\* source and one of another.
OrderArgs ==
    {<<<<"a">>, "t1", None, None, None>>,
     <<<<"a">>, "t2", Some([k |-> "v"]), Some("th1"), None>>,
     <<<<"a", ":", "b">>, "t2", Some(EmptyDict), None, Some("c1")>>}

DoSearchEmpty == \E kw \in EmptyKwargs : Search(kw)

DoStoreOrder ==
    /\ Len(log) < MaxOrderStores
    /\ \E a \in OrderArgs : Store(a[1], a[2], a[3], a[4], a[5])

DoRetrieve ==
    \E entry_id \in {EntryId(log[i].entry) : i \in 1..Len(log)}
                    \cup {NonexistentId} :
        Retrieve(entry_id)

DoSearch == \E kw \in SearchKwargs : Search(kw)

DoCallerSetsType ==
    \E ref \in 1..Len(heap), type \in Types : CallerSetsType(ref, type)

Next == Tick \/ DoStore \/ DoRetrieve \/ DoSearch \/ Collect

Spec == Init /\ [][Next]_vars

\* search() with no criteria.
DoSearchAll == Search(Kwargs(None, None, None, None, None, None))

\* Callers that store, retrieve and list, and write to the entries they
\* were returned.
NextAliasing ==
    Tick \/ DoStore \/ DoRetrieve \/ DoSearchAll \/ DoCallerSetsType \/ Collect

SpecAliasing == Init /\ [][NextAliasing]_vars

\* Callers that construct facades.
NextConstruct == DoConstruct

SpecConstruct == Init /\ [][NextConstruct]_vars

\* Threads that share one in-process facade; the scheduler runs any of
\* them at each step.
NextThreads ==
    \/ Tick
    \/ DoThreadStore
    \/ DoThreadRetrieve
    \/ DoThreadSearchBegin
    \/ DoThreadSearchStep

SpecThreads == Init /\ [][NextThreads]_vars

\* The matchers applied to an entry and a criteria set.
NextMatch == DoMatch

SpecMatch == Init /\ [][NextMatch]_vars

\* Callers that store up to MaxOrderStores entries and list them.
NextOrder == Tick \/ DoStoreOrder \/ DoSearchAll \/ Collect

SpecOrder == Init /\ [][NextOrder]_vars

\* Callers that store and search with criteria given as the empty string.
NextEmpty == Tick \/ DoStore \/ DoSearchEmpty \/ Collect

SpecEmpty == Init /\ [][NextEmpty]_vars

\* ------------------------------------------------------------ the claims

\* The last store call.
LastStore == log[Len(log)]

\* An entry with a source and a type.
ValidEntry(e) == e.source # <<>> /\ e.type # ""

\* The payload of an entry, an absent one read as the empty mapping.
PayloadOf(e) ==
    IF IsNone(e.extracted_values) THEN EmptyDict ELSE Get(e.extracted_values)

\* Two entries equal in every field.
SameEntry(a, b) ==
    /\ a.source = b.source
    /\ a.type = b.type
    /\ a.timestamp = b.timestamp
    /\ a.thread_id = b.thread_id
    /\ a.conversation_id = b.conversation_id
    /\ PayloadOf(a) = PayloadOf(b)

\* A call that returned (did not raise).
Returned(o) == o.raised = ""

\* A retrieve result that is the entry e.
IsEntry(o, e) ==
    /\ Returned(o)
    /\ ~IsNone(o.value)
    /\ SameEntry(Get(o.value), e)

\* The entries built by the store calls so far, in call order.
StoredEntries == [i \in 1..Len(log) |-> log[i].entry]

\* The members of a sequence of entries that satisfy the criteria kw, every
\* criterion given being an exact match or an inclusive bound.
RECURSIVE Matching(_, _)
Matching(es, kw) ==
    IF es = <<>> THEN <<>>
    ELSE LET e == Head(es)
             m == /\ "source" \in DOMAIN kw => e.source = kw.source
                  /\ "type" \in DOMAIN kw => e.type = kw.type
                  /\ "thread_id" \in DOMAIN kw
                         => e.thread_id = Some(kw.thread_id)
                  /\ "conversation_id" \in DOMAIN kw
                         => e.conversation_id = Some(kw.conversation_id)
                  /\ "start_time" \in DOMAIN kw
                         => ~DtLess(e.timestamp, kw.start_time)
                  /\ "end_time" \in DOMAIN kw
                         => ~DtLess(kw.end_time, e.timestamp)
         IN  (IF m THEN <<e>> ELSE <<>>) \o Matching(Tail(es), kw)

\* A search result that holds exactly the entries es, each as often as es
\* does, in any order.
IsExactly(o, es) ==
    /\ Returned(o)
    /\ Len(o.value) = Len(es)
    /\ \A j \in 1..Len(o.value) : ~IsNone(o.value[j])
    /\ \A i \in 1..Len(es) :
           Cardinality({j \in 1..Len(o.value) :
                            SameEntry(Get(o.value[j]), es[i])})
           = Cardinality({k \in 1..Len(es) : SameEntry(es[k], es[i])})

\* C1: round trip.  In every backend variant, retrieving the identifier of
\* a valid entry right after storing it succeeds: the store returned the
\* identifier and the retrieve returns an entry equal to the stored one in
\* source, type, timestamp, thread_id, conversation_id and extracted_values.
C1_RoundTrip ==
    (/\ ret.op = "retrieve"
     /\ Len(log) > 0
     /\ ValidEntry(LastStore.entry)
     /\ ret.arg = EntryId(LastStore.entry))
    => \A v \in Variants :
           /\ Returned(LastStore.out[v])
           /\ LastStore.out[v].value = ret.arg
           /\ IsEntry(ret.out[v], LastStore.entry)

\* C2: on the facade SharedMemory("sqlite") a store returns an identifier
\* and a later retrieve of that identifier returns an entry that carries
\* the stored source, type and extracted_values.
C2_SqliteStoreThenRetrieve ==
    /\ ret.op = "store"
           => Returned(ret.out.sqlite) /\ ret.out.sqlite.value # None
    /\ (/\ ret.op = "retrieve"
        /\ Len(log) > 0
        /\ ret.arg = EntryId(LastStore.entry))
           => /\ Returned(ret.out.sqlite)
              /\ ~IsNone(ret.out.sqlite.value)
              /\ Get(ret.out.sqlite.value).source = LastStore.entry.source
              /\ Get(ret.out.sqlite.value).type = LastStore.entry.type
              /\ PayloadOf(Get(ret.out.sqlite.value))
                     = PayloadOf(LastStore.entry)

\* C3: in every backend variant and every reachable state, retrieve of an
\* identifier that no store call has returned gives the absent result and
\* does not raise.
C3_UnknownIdIsAbsent ==
    (/\ ret.op = "retrieve"
     /\ \A i \in 1..Len(log) : ret.arg # EntryId(log[i].entry))
    => \A v \in Variants : ret.out[v] = Ok(None)

\* C4: in every backend variant, search() with no criteria returns exactly
\* the entries stored so far, one result per store call.
C4_SearchAllReturnsEveryStore ==
    (ret.op = "search" /\ DOMAIN ret.arg = {})
    => \A v \in Variants : IsExactly(ret.out[v], StoredEntries)

\* C5: in every backend variant, search returns exactly the stored entries
\* that satisfy every criterion given (exact match on source, type,
\* thread_id and conversation_id, inclusive bounds on the timestamp) and
\* filters on no other.
C5_SearchReturnsExactlyTheMatches ==
    ret.op = "search"
    => \A v \in Variants :
           IsExactly(ret.out[v], Matching(StoredEntries, ret.arg))

\* The entries of a search result that holds no None.
EntriesOf(o) == [j \in 1..Len(o.value) |-> Get(o.value[j])]

\* Two facades' outcomes of the last call are the same: the same exception,
\* or the same identifier, the same entry or absence, the same entries.
SameOutcome(a, b) ==
    /\ a.raised = b.raised
    /\ Returned(a) =>
           CASE ret.op = "retrieve" ->
                    /\ IsNone(a.value) = IsNone(b.value)
                    /\ ~IsNone(a.value) => SameEntry(Get(a.value), Get(b.value))
             [] ret.op = "search" ->
                    /\ \A j \in 1..Len(b.value) : ~IsNone(b.value[j])
                    /\ IsExactly(a, EntriesOf(b))
             [] OTHER -> a.value = b.value

\* C6: cross-backend consistency.  After the same sequence of calls every
\* backend variant gives the same outcome for each call (identifier
\* returned, success or error of a store, entry retrieved, search result),
\* and search(source=X) is exactly the stored entries whose source is X.
C6_BackendsAgree ==
    /\ \A v, w \in Variants : SameOutcome(ret.out[v], ret.out[w])
    /\ (ret.op = "search" /\ DOMAIN ret.arg = {"source"})
           => \A v \in Variants :
                  IsExactly(ret.out[v], Matching(StoredEntries, ret.arg))

\* The number of entries a backend holds under an identifier.
HeldUnder(v, entry_id) ==
    CASE v = "memory" ->
             Cardinality({i \in 1..Len(entries) : entries[i].id = entry_id})
      [] v = "redis" ->
             IF RedisKey(entry_id) \in DOMAIN redis THEN 1 ELSE 0
      [] OTHER ->
             LET db == Connect(DbPath(v), files)
             IN  Cardinality({i \in 1..Len(db.rows) :
                                  db.rows[i].id = entry_id})

\* Store calls i < j of the same source at the same clock reading.
Collide(i, j) ==
    /\ i < j
    /\ log[i].entry.source = log[j].entry.source
    /\ log[i].entry.timestamp = log[j].entry.timestamp

\* C7: identifier collision.  Two stores of the same source at the same
\* timestamp return one and the same identifier in every backend, the
\* second succeeds and overwrites the first: exactly one entry is held under
\* the identifier and a retrieve of it returns the second entry.
C7_CollisionOverwrites ==
    \A i, j \in 1..Len(log) :
        Collide(i, j) =>
            \A v \in Variants :
                /\ Returned(log[i].out[v])
                /\ Returned(log[j].out[v])
                /\ log[i].out[v].value = log[j].out[v].value
                /\ HeldUnder(v, EntryId(log[j].entry)) = 1
                /\ (/\ ret.op = "retrieve"
                    /\ ret.arg = EntryId(log[j].entry)
                    /\ j = Len(log))
                       => IsEntry(ret.out[v], log[j].entry)

\* C8: a store call whose source or type is empty is rejected with
\* InvalidEntry, and no backend holds an entry with an empty source or an
\* empty type.
C8_EmptySourceOrTypeRejected ==
    /\ (ret.op = "store" /\ ~ValidEntry(ret.arg))
           => \A v \in Variants : ret.out[v].raised = "InvalidEntry"
    /\ \A i \in 1..Len(entries) : ValidEntry(heap[entries[i].ref])
    /\ \A i \in 1..Len(files[FilePath].rows) :
           ValidEntry(files[FilePath].rows[i])
    /\ \A k \in DOMAIN redis : ValidEntry(redis[k])

\* Store call i is the one whose entry backend v holds under its identifier:
\* it succeeded there and no later store of that identifier did.
HoldsStore(v, i) ==
    /\ Returned(log[i].out[v])
    /\ \A k \in (i + 1)..Len(log) :
           ~(Returned(log[k].out[v])
             /\ EntryId(log[k].entry) = EntryId(log[i].entry))

\* C9: an entry stored without extracted_values comes back from retrieve
\* and search with the empty mapping as its extracted_values, not with an
\* absent value, in every backend.
C9_PayloadDefaultsToEmptyMapping ==
    \A v \in Variants :
        LET o  == ret.out[v]
            es == IF ret.op = "retrieve" THEN <<o.value>>
                  ELSE IF ret.op = "search" THEN o.value
                  ELSE <<>>
        IN  Returned(o) =>
                \A j \in 1..Len(es) :
                    (/\ ~IsNone(es[j])
                     /\ \E i \in 1..Len(log) :
                            /\ HoldsStore(v, i)
                            /\ EntryId(log[i].entry) = EntryId(Get(es[j]))
                            /\ IsNone(log[i].entry.extracted_values))
                    => Get(es[j]).extracted_values = Some(EmptyDict)

\* C10: an entry is immutable once stored.  Whatever calls and caller
\* writes came in between, a retrieve that returns an entry for an
\* identifier returns the entry that the store call holding that identifier
\* stored, field for field (source, type, timestamp, thread_id,
\* conversation_id, extracted_values).
C10_StoredEntryNeverChanges ==
    ret.op = "retrieve" =>
        \A v \in Variants, i \in 1..Len(log) :
            (/\ HoldsStore(v, i)
             /\ log[i].out[v].value = ret.arg
             /\ Returned(ret.out[v])
             /\ ~IsNone(ret.out[v].value))
            => SameEntry(Get(ret.out[v].value), log[i].entry)

\* C11: construction makes one backend choice.  The names "sqlite", "redis"
\* and "memory" in any letter case give a SQLiteBackend, a RedisBackend and
\* an InMemoryBackend, a backend object is taken as it is, any other name
\* raises ValueError, and a facade that exists has a backend.
C11_ConstructionChoosesOneBackend ==
    /\ \A v \in Variants : backend[v] # None
    /\ ~IsNone(facade.arg) =>
           LET a == Get(facade.arg)
               o == facade.out
               named(c) == a.is_str /\ a.name \in CaseVariants(BackendNames[c])
           IN  /\ named("SQLiteBackend") => o = Ok(SQLiteBackend(":memory:"))
               /\ named("RedisBackend") => o = Ok(RedisBackend)
               /\ named("InMemoryBackend") => o = Ok(InMemoryBackend)
               /\ ~a.is_str => o = Ok(a.object)
               /\ (a.is_str /\ \A c \in DOMAIN BackendNames : ~named(c))
                      => o = Raise("ValueError")
               /\ Returned(o) => o.value # None

\* A facade was constructed from the name "SqLiTe" and has a SQLiteBackend.
C11_Witness ==
    /\ facade.arg = Some(StrArg(<<"S", "q", "L", "i", "T", "e">>))
    /\ Returned(facade.out)
    /\ facade.out.value.class = "SQLiteBackend"

\* C12: in the in-process variant used from several threads every access to
\* the entry mapping is serialized under one lock.  While the search of one
\* thread iterates over the mapping no other thread's operation gets at it:
\* the mapping is as it was when the iteration began, no other search is
\* iterating, and no search ends in the RuntimeError of a dict that changed
\* size under its iterator.
C12_MappingAccessSerialized ==
    \A t \in Threads :
        /\ threads[t].pc = "search" =>
               /\ threads[t].began = entries
               /\ \A u \in Threads \ {t} : threads[u].pc # "search"
        /\ threads[t].out.raised # "RuntimeError"

\* C13: in the SQLite variant every call releases the connection it opened
\* before it is over, on normal and on failing exits alike: when a store,
\* retrieve or search call has returned or raised, no connection that a
\* completed call opened is still open.
C13_ConnectionsReleased ==
    ret.op \in {"store", "retrieve", "search"}
    => \A v \in SqlVariants : conns[v] = 0

\* The number of entries a backend holds.
NumHeld(v) ==
    CASE v = "memory" -> Len(entries)
      [] v = "redis" -> Cardinality(DOMAIN redis)
      [] OTHER -> Len(Connect(DbPath(v), files).rows)

\* C14: no operation swallows a failure.  A store that returns has written
\* the entry, a retrieve that returns gives the entry when the backend holds
\* one under the identifier, and a search that returns gives entries only,
\* none of the held entries left out of an unfiltered result: every failure
\* to write or to read back is raised, not turned into a normal result.
C14_NoFailureSwallowed ==
    \A v \in Variants :
        LET o == ret.out[v]
        IN  Returned(o) =>
                CASE ret.op = "store" -> HeldUnder(v, o.value) = 1
                  [] ret.op = "retrieve" ->
                         HeldUnder(v, ret.arg) > 0 => ~IsNone(o.value)
                  [] ret.op = "search" ->
                         /\ \A j \in 1..Len(o.value) : ~IsNone(o.value[j])
                         /\ DOMAIN ret.arg = {} => Len(o.value) = NumHeld(v)
                  [] OTHER -> TRUE

\* C15: the matching logic is one and the same.  For every entry and every
\* criteria set RedisBackend._matches_criteria and
\* InMemoryBackend._matches_criteria give the same boolean, which is whether
\* the query SQLiteBackend.search builds from the criteria selects the
\* entry's row.
C15_MatchersAgree ==
    ret.op = "match"
    => /\ Returned(ret.out.redis)
       /\ ret.out.redis = ret.out.memory
       /\ ret.out.memory = ret.out.file

\* An entry with thread_id "th1" at 0.5 s is accepted by the three matchers
\* under thread_id "th1" and a time window that starts and ends at 0.5 s.
C15_Witness ==
    /\ ret.op = "match"
    /\ DOMAIN ret.arg.kw = {"thread_id", "start_time", "end_time"}
    /\ ret.arg.kw.start_time = ret.arg.entry.timestamp
    /\ ret.arg.kw.end_time = ret.arg.entry.timestamp
    /\ ret.arg.entry.timestamp = DateTime(0, 500000)
    /\ ret.arg.entry.thread_id = Some("th1")
    /\ \A v \in Variants : ret.out[v] = Ok(TRUE)

\* The store call that put entry e into backend v: the last one that
\* returned there with this entry.
StoreIndex(v, e) ==
    LET calls == {i \in 1..Len(log) :
                      Returned(log[i].out[v]) /\ log[i].entry = e}
    IN  CHOOSE i \in calls : \A k \in calls : k <= i

\* The entry of a search result as the store call built it (a payload read
\* back as the empty mapping was stored as None or as the empty mapping).
AsStored(e) ==
    IF \E i \in 1..Len(log) : log[i].entry = e THEN e
    ELSE [e EXCEPT !.extracted_values = None]

\* C16: search returns the matching entries in storage-insertion order:
\* when two entries are in a result, the one whose store call completed
\* first comes first, also after stores that reuse an identifier.
C16_SearchInInsertionOrder ==
    ret.op = "search" =>
        \A v \in Variants :
            LET o == ret.out[v]
            IN  Returned(o) =>
                    \A j, k \in 1..Len(o.value) :
                        (j < k /\ ~IsNone(o.value[j]) /\ ~IsNone(o.value[k]))
                        => StoreIndex(v, AsStored(Get(o.value[j])))
                               < StoreIndex(v, AsStored(Get(o.value[k])))

\* C17: retrieve and search are read-only pass-throughs.  A retrieve or
\* search call leaves what every backend holds (the database file, the Redis
\* hashes, the dict and its entry objects) as it was, and no store, retrieve
\* or search call changes the backend reference of a facade.
C17_ReadsChangeNothing ==
    [][/\ ret'.op \in {"retrieve", "search"}
           => UNCHANGED <<files, redis, entries, heap>>
       /\ backend' = backend]_vars

\* A search has listed the two entries that the database file and the dict
\* hold, and a retrieve has returned an entry that is held.
C17_Witness ==
    /\ Len(entries) = 2
    /\ Len(files[FilePath].rows) = 2
    /\ \/ /\ ret.op = "search"
          /\ Len(ret.out.file.value) = 2
          /\ Len(ret.out.memory.value) = 2
       \/ /\ ret.op = "retrieve"
          /\ ~IsNone(ret.out.file.value)
          /\ ~IsNone(ret.out.memory.value)

\* C18: RedisBackend.search recovers from every key "memory:<identifier>"
\* the identifier that store returned, whatever the source (also one that
\* holds ":"), so a search result holds stored entries only, never None, and
\* no search fails on reading a field of None.
C18_RedisSearchRecoversIdentifiers ==
    ret.op = "search" =>
        /\ \A key \in DOMAIN redis :
               RedisKey(Split(key, ":")[2]) = key
        /\ Returned(ret.out.redis)
               => \A j \in 1..Len(ret.out.redis.value) :
                      ~IsNone(ret.out.redis.value[j])
        /\ ret.out.redis.raised # "AttributeError"

\* The criteria kw without those of source, type, thread_id and
\* conversation_id that are the empty string.
WithoutEmpty(kw) ==
    LET empty(k) == IF k = "source" THEN kw[k] = <<>> ELSE kw[k] = ""
        kept == {k \in DOMAIN kw :
                     ~(k \in {"source", "type", "thread_id", "conversation_id"}
                       /\ empty(k))}
    IN  [k \in kept |-> kw[k]]

\* C19: a criterion given as the empty string is treated as an omitted one.
\* In every backend a search gives what the search without its empty
\* source, type, thread_id and conversation_id criteria gives.
C19_EmptyCriterionIsOmitted ==
    ret.op = "search" =>
        \A v \in Variants :
            \E keys \in KeyOrders(redis) :
                ret.out[v] = SearchOut(WithoutEmpty(ret.arg), keys)[v]

\* search(type="") has returned both stored entries, one of type "" and one
\* of another type, from the database file and from the dict.
C19_Witness ==
    /\ ret.op = "search"
    /\ DOMAIN ret.arg = {"type"}
    /\ ret.arg.type = ""
    /\ \A v \in {"file", "memory"} :
           /\ Returned(ret.out[v])
           /\ Len(ret.out[v].value) = 2
           /\ \E j, k \in 1..2 :
                  /\ Get(ret.out[v].value[j]).type = ""
                  /\ Get(ret.out[v].value[k]).type # ""

====
